---- MODULE Spec2Model ----
(***************************************************************************)
(* Model of migrate-discussions.py: the full migration run                 *)
(* (bitbucket_to_github) against a source provider and a destination       *)
(* client, and the reference-rewriting passes over body texts.             *)
(***************************************************************************)
EXTENDS Integers, Sequences, FiniteSets, TLC

\* ------------------------------------------------------------------ bounds
MaxIssueId == 2      \* source issue ids are drawn from 1..MaxIssueId
MaxPulls == 2        \* at most this many source pull requests
MaxDest == 1         \* numbers the destination may hold before the first run
MaxRuns == 2         \* invocations of main() in one behaviour
MaxParts == 3        \* pieces a body text is put together from
MaxComments == 2     \* replies, changes or activities of one source item
MaxTime == 2         \* seconds the timestamps of comments are drawn from

\* args.bitbucket_repository of the run
BRepo == "o/r"

Max(S) == IF S = {} THEN 0 ELSE CHOOSE m \in S : \A x \in S : x <= m

VARIABLES
    bitbucket,      \* source provider: [issues, pulls]
    github,         \* destination: live number -> kind
    KNOWN_ISSUES_COUNT_MAPPING,
    args,           \* [skip_attachments]
    pc,             \* position in main / bitbucket_to_github
    run,            \* number of invocations of main so far
    bissues, bpulls, pulls_id_offset,
    attachment_gist_by_issue_id,
    issues_and_pulls,
    existing_gissues, existing_gpulls,
    index,          \* loop position of the current phase (1-based)
    log,            \* calls and reports of the current run, in order
    github_at_start, \* the destination as each run found it, one entry per run
    body_parts,     \* the pieces of the body text handed to a rewriting pass
    pass,           \* the rewriting pass applied to the body, "none" before
    result,         \* what the pass returned, or the exception it raised
    source_item,    \* the source issue or pull request handed to an assembler
    assembled,      \* what the assembler returned or raised, and what it printed
    cmap,           \* the mercurial hashes the commit map translates
    bnicknames,     \* check(): the handles collected so far
    bissue_id       \* check(): the loop variable of the issue loop, << >> unbound

rvars == << bitbucket, github, KNOWN_ISSUES_COUNT_MAPPING, args, pc, run,
            bissues, bpulls, pulls_id_offset, attachment_gist_by_issue_id,
            issues_and_pulls, existing_gissues, existing_gpulls, index, log,
            github_at_start >>

tvars == << body_parts, pass, result >>

avars == << source_item, assembled, cmap, bnicknames, bissue_id >>

vars == << rvars, tvars, avars >>

env == << bitbucket, KNOWN_ISSUES_COUNT_MAPPING, args >>

\* ============================================================ body texts
\* A text is a sequence of characters (one-character strings).

\* -------------------------------------------------------- literal strings
S_bitbucket ==
    <<"h", "t", "t", "p", "s", ":", "/", "/", "b", "i", "t", "b", "u", "c",
      "k", "e", "t", ".", "o", "r", "g", "/">>
S_github ==
    <<"h", "t", "t", "p", "s", ":", "/", "/", "g", "i", "t", "h", "u", "b",
      ".", "c", "o", "m", "/">>
S_pull_request ==
    <<"/", "p", "u", "l", "l", "-", "r", "e", "q", "u", "e", "s", "t">>
S_issue == <<"/", "i", "s", "s", "u", "e">>
S_pull == <<"/", "p", "u", "l", "l", "/">>
S_issues == <<"/", "i", "s", "s", "u", "e", "s", "/">>
S_issue_hash == <<"i", "s", "s", "u", "e", " ", "#">>
S_pull_request_hash ==
    <<"p", "u", "l", "l", " ", "r", "e", "q", "u", "e", "s", "t", " ", "#">>
S_slash_i == <<"/", "i">>
S_ignore == <<"i", "g", "n", "o", "r", "e", "_">>
S_see == <<"s", "e", "e", " ">>
S_diff == <<"/", "d", "i", "f", "f">>
S_alice == <<"a", "l", "i", "c", "e">>
S_bob == <<"b", "o", "b">>
S_abot == <<"a", "b", "o", "t">>
S_uuid == <<"{", "u", ":", "1", "}">>

\* the names of the repositories, as texts
RepoChars ==
    [r \in {"o/r", "o/s", "o/x", "g/r", "g/s"} |->
        CASE r = "o/r" -> <<"o", "/", "r">>
          [] r = "o/s" -> <<"o", "/", "s">>
          [] r = "o/x" -> <<"o", "/", "x">>
          [] r = "g/r" -> <<"g", "/", "r">>
          [] r = "g/s" -> <<"g", "/", "s">>]

\* ------------------------------------------------- configuration (config.py)
\* config.KNOWN_REPO_MAPPING, and the order in which the dict is iterated
KNOWN_REPO_MAPPING == ("o/r" :> "g/r") @@ ("o/s" :> "g/s")
KnownRepoOrder == <<"o/r", "o/s">>

\* config.USER_MAPPING
USER_MAPPING == (S_alice :> S_abot)

\* args.github_repository
GRepo == "g/r"

\* ---------------------------------------------------- character classes
Digits == {"0", "1", "2", "3", "4", "5", "6", "7", "8", "9"}
Letters ==
    {"a", "b", "c", "d", "e", "f", "g", "h", "i", "j", "k", "l", "m", "n",
     "o", "p", "q", "r", "s", "t", "u", "v", "w", "x", "y", "z"}
\* \w
WordChars == Letters \cup Digits \cup {"_"}
\* [a-zA-Z0-9_\-]
HandleChars == Letters \cup Digits \cup {"_", "-"}
\* \s
SpaceChars == {" ", "\n", "\t"}
\* the characters excluded by [^\s()\[\]{}]
LinkStopChars == SpaceChars \cup {"(", ")", "[", "]", "{", "}"}

\* --------------------------------------------------------- text helpers
Min(S) == CHOOSE m \in S : \A x \in S : m <= x

RECURSIVE Flatten(_)
Flatten(ss) == IF ss = << >> THEN << >> ELSE Head(ss) \o Flatten(Tail(ss))

StartsWith(t, i, p) ==
    /\ i >= 1
    /\ i + Len(p) - 1 <= Len(t)
    /\ \A k \in 1..Len(p) : t[i + k - 1] = p[k]

\* length of the longest run of elements of C in t, starting at i
RunLen(t, i, C) ==
    Max({ j \in i..(Len(t) + 1) : \A k \in i..(j - 1) : t[k] \in C }) - i

\* length of the longest run of elements outside C in t, starting at i
RunLenNot(t, i, C) ==
    Max({ j \in i..(Len(t) + 1) : \A k \in i..(j - 1) : t[k] \notin C }) - i

\* int(digits)
DigitChars == <<"0", "1", "2", "3", "4", "5", "6", "7", "8", "9">>
DigitValue(c) == (CHOOSE k \in 1..10 : DigitChars[k] = c) - 1
RECURSIVE ParseInt(_)
ParseInt(ds) ==
    IF ds = << >> THEN 0
    ELSE 10 * ParseInt(SubSeq(ds, 1, Len(ds) - 1)) + DigitValue(ds[Len(ds)])

\* the decimal digits "{}".format(n) writes
RECURSIVE FormatInt(_)
FormatInt(n) ==
    IF n < 10 THEN << DigitChars[n + 1] >>
    ELSE FormatInt(n \div 10) \o << DigitChars[(n % 10) + 1] >>

\* repo.split('/')[-1]
ShortName(cs) ==
    LET slashes == { k \in 1..Len(cs) : cs[k] = "/" }
    IN  SubSeq(cs, Max(slashes) + 1, Len(cs))

NoMatch == [matched |-> FALSE]

\* ------------------------------------------------- explicit links (URLs)
\* EXPLICIT_ISSUE_LINK_RE / EXPLICIT_PR_LINK_RE tried at position i:
\*   https://bitbucket.org/(repos)<mid>s*/(\d+)[^\s()\[\]{}]*
\* with mid = "/issue" or "/pull-request"; the alternatives of (repos) are
\* tried in the order of the dict
ExplicitLinkMatch(t, i, mid) ==
    IF ~StartsWith(t, i, S_bitbucket) THEN NoMatch
    ELSE
      LET j0 == i + Len(S_bitbucket)
          NumberAt(r) ==
              LET j2 == j0 + Len(RepoChars[r]) + Len(mid)
              IN  j2 + RunLen(t, j2, {"s"}) + 1
          Fits(r) ==
              /\ StartsWith(t, j0, RepoChars[r])
              /\ StartsWith(t, j0 + Len(RepoChars[r]), mid)
              /\ NumberAt(r) - 1 <= Len(t)
              /\ t[NumberAt(r) - 1] = "/"
              /\ RunLen(t, NumberAt(r), Digits) >= 1
          cands == { k \in 1..Len(KnownRepoOrder) : Fits(KnownRepoOrder[k]) }
      IN  IF cands = {} THEN NoMatch
          ELSE LET r == KnownRepoOrder[Min(cands)]
                   n1 == NumberAt(r)
                   n2 == n1 + RunLen(t, n1, Digits)
                   e == n2 + RunLenNot(t, n2, LinkStopChars)
               IN  [matched |-> TRUE, repo |-> r,
                    nr |-> SubSeq(t, n1, n2 - 1),
                    group0 |-> SubSeq(t, i, e - 1), next |-> e]

\* the issue link written back in source form, with the next number
replace_explicit_issue_link_SourceForm(m) ==
    S_bitbucket \o RepoChars[m.repo] \o S_issue
        \o << "/" >> \o FormatInt(ParseInt(m.nr) + 1)

\* replace_explicit_links_to_issues.replace_issue_link
replace_explicit_issue_link(m) ==
    IF m.repo \notin DOMAIN KNOWN_REPO_MAPPING
       THEN m.group0
       ELSE S_github \o RepoChars[KNOWN_REPO_MAPPING[m.repo]] \o S_issues \o m.nr

\* the pull link written with the source number, the offset not added
replace_pr_link_NoOffset(m) ==
    IF m.repo \notin DOMAIN KNOWN_REPO_MAPPING
          \/ m.repo \notin DOMAIN KNOWN_ISSUES_COUNT_MAPPING
       THEN m.group0
       ELSE S_github \o RepoChars[KNOWN_REPO_MAPPING[m.repo]] \o S_pull
               \o FormatInt(ParseInt(m.nr))

\* replace_explicit_links_to_prs.replace_pr_link
replace_pr_link(m) ==
    IF m.repo \notin DOMAIN KNOWN_REPO_MAPPING
          \/ m.repo \notin DOMAIN KNOWN_ISSUES_COUNT_MAPPING
       THEN m.group0
       ELSE S_github \o RepoChars[KNOWN_REPO_MAPPING[m.repo]] \o S_pull
               \o FormatInt(ParseInt(m.nr) + KNOWN_ISSUES_COUNT_MAPPING[m.repo])

\* EXPLICIT_ISSUE_LINK_RE.sub(replace_issue_link, body), from position i:
\* the leftmost match at or after i is replaced, the text before it is kept
RECURSIVE SubExplicitIssues(_, _)
SubExplicitIssues(t, i) ==
    LET hits == { j \in i..Len(t) : ExplicitLinkMatch(t, j, S_issue).matched }
    IN  IF hits = {} THEN SubSeq(t, i, Len(t))
        ELSE LET m == ExplicitLinkMatch(t, Min(hits), S_issue)
             IN  SubSeq(t, i, Min(hits) - 1) \o replace_explicit_issue_link(m)
                     \o SubExplicitIssues(t, m.next)

\* EXPLICIT_PR_LINK_RE.sub(replace_pr_link, body), from position i
RECURSIVE SubExplicitPrs(_, _)
SubExplicitPrs(t, i) ==
    LET hits == { j \in i..Len(t) :
                    ExplicitLinkMatch(t, j, S_pull_request).matched }
    IN  IF hits = {} THEN SubSeq(t, i, Len(t))
        ELSE LET m == ExplicitLinkMatch(t, Min(hits), S_pull_request)
             IN  SubSeq(t, i, Min(hits) - 1) \o replace_pr_link(m)
                     \o SubExplicitPrs(t, m.next)

\* a pass returns a text, or raises
Returned(t) == [ok |-> TRUE, text |-> t]
Raised(e) == [ok |-> FALSE, error |-> e]

replace_explicit_links_to_issues(t) == Returned(SubExplicitIssues(t, 1))
replace_explicit_links_to_prs(t) == Returned(SubExplicitPrs(t, 1))

\* ----------------------------------------------- implicit links (shorthand)
\* IMPLICIT_ISSUE_LINK_RE / IMPLICIT_PR_LINK_RE tried at position i:
\*   \[.*?\]|(<name> |...)?<word>(\d+)/i
\* with word = "issue #" or "pull request #"; "/i" is part of the pattern
ImplicitLinkMatch(t, i, word) ==
    LET closers == { j \in (i + 1)..Len(t) :
                       /\ t[j] = "]"
                       /\ \A k \in (i + 1)..(j - 1) : t[k] /= "\n" }
        Prefix(r) == ShortName(RepoChars[r]) \o << " " >>
        Core(j) ==
            /\ StartsWith(t, j, word)
            /\ RunLen(t, j + Len(word), Digits) >= 1
            /\ StartsWith(t, j + Len(word) + RunLen(t, j + Len(word), Digits),
                          S_slash_i)
        Result(j, name) ==
            LET n1 == j + Len(word)
                n2 == n1 + RunLen(t, n1, Digits)
            IN  [matched |-> TRUE, bracket |-> FALSE, repo_name |-> name,
                 nr |-> SubSeq(t, n1, n2 - 1),
                 group0 |-> SubSeq(t, i, n2 + Len(S_slash_i) - 1),
                 next |-> n2 + Len(S_slash_i)]
        cands == { k \in 1..Len(KnownRepoOrder) :
                     /\ StartsWith(t, i, Prefix(KnownRepoOrder[k]))
                     /\ Core(i + Len(Prefix(KnownRepoOrder[k]))) }
    IN  IF t[i] = "[" /\ closers /= {}
           THEN [matched |-> TRUE, bracket |-> TRUE,
                 group0 |-> SubSeq(t, i, Min(closers)), next |-> Min(closers) + 1]
        ELSE IF cands /= {}
           THEN LET p == Prefix(KnownRepoOrder[Min(cands)])
                IN  Result(i + Len(p), p)
        ELSE IF Core(i)
           THEN Result(i, << >>)
        ELSE NoMatch

\* the source repositories whose short name and a blank equal repo_name
NamedRepos(repo_name) ==
    { k \in 1..Len(KnownRepoOrder) :
        repo_name = ShortName(RepoChars[KnownRepoOrder[k]]) \o << " " >> }

\* replace_implicit_links_to_issues.replace_issue_link; a match of the
\* bracket alternative has no group 2
replace_implicit_issue_link(m) ==
    IF m.bracket THEN m.group0
    ELSE LET grepo == IF NamedRepos(m.repo_name) /= {}
                         THEN KNOWN_REPO_MAPPING[
                                  KnownRepoOrder[Min(NamedRepos(m.repo_name))]]
                         ELSE GRepo
         IN  S_github \o RepoChars[grepo] \o S_issues \o m.nr

\* replace_implicit_links_to_prs.replace_issue_link: group 2 is a str, and
\* adding the configured count (an int) to it raises TypeError
replace_implicit_pr_link(m) ==
    IF m.bracket THEN Returned(m.group0)
    ELSE LET brepo == IF NamedRepos(m.repo_name) /= {}
                         THEN KnownRepoOrder[Min(NamedRepos(m.repo_name))]
                         ELSE BRepo
         IN  IF brepo \notin DOMAIN KNOWN_ISSUES_COUNT_MAPPING
                THEN Returned(m.group0)
                ELSE Raised("TypeError")

\* IMPLICIT_ISSUE_LINK_RE.sub(replace_issue_link, body), from position i
RECURSIVE SubImplicitIssues(_, _)
SubImplicitIssues(t, i) ==
    LET hits == { j \in i..Len(t) : ImplicitLinkMatch(t, j, S_issue_hash).matched }
    IN  IF hits = {} THEN SubSeq(t, i, Len(t))
        ELSE LET m == ImplicitLinkMatch(t, Min(hits), S_issue_hash)
             IN  SubSeq(t, i, Min(hits) - 1) \o replace_implicit_issue_link(m)
                     \o SubImplicitIssues(t, m.next)

\* IMPLICIT_PR_LINK_RE.sub(replace_issue_link, body), from position i; an
\* exception raised for a match ends the pass
RECURSIVE SubImplicitPrs(_, _)
SubImplicitPrs(t, i) ==
    LET hits == { j \in i..Len(t) :
                    ImplicitLinkMatch(t, j, S_pull_request_hash).matched }
    IN  IF hits = {} THEN Returned(SubSeq(t, i, Len(t)))
        ELSE LET m == ImplicitLinkMatch(t, Min(hits), S_pull_request_hash)
                 r == replace_implicit_pr_link(m)
                 rest == SubImplicitPrs(t, m.next)
             IN  IF ~r.ok THEN r
                 ELSE IF ~rest.ok THEN rest
                 ELSE Returned(SubSeq(t, i, Min(hits) - 1) \o r.text \o rest.text)

replace_implicit_links_to_issues(t) == Returned(SubImplicitIssues(t, 1))
replace_implicit_links_to_prs(t) == SubImplicitPrs(t, 1)

\* ------------------------------------------------------- user mentions
\* the mapped handle returned without the 'ignore_' prefix
lookup_user_MappedBare(buser_nickname) ==
    IF buser_nickname \notin DOMAIN USER_MAPPING
       THEN S_ignore \o buser_nickname
       ELSE USER_MAPPING[buser_nickname]

lookup_user(buser_nickname) ==
    IF buser_nickname \notin DOMAIN USER_MAPPING
       THEN S_ignore \o buser_nickname
       ELSE S_ignore \o USER_MAPPING[buser_nickname]

\* MENTION_RE tried at position i:
\*   (?:^|(?<=[^\w]))@([a-zA-Z0-9_\-]+|{[a-zA-Z0-9_\-:]+})
MentionMatch(t, i) ==
    IF ~(t[i] = "@" /\ (i = 1 \/ t[i - 1] \notin WordChars)) THEN NoMatch
    ELSE LET h == RunLen(t, i + 1, HandleChars)
             u == RunLen(t, i + 2, HandleChars \cup {":"})
         IN  IF h >= 1
                THEN [matched |-> TRUE, buser |-> SubSeq(t, i + 1, i + h),
                      next |-> i + h + 1]
             ELSE IF /\ i + 1 <= Len(t)
                     /\ t[i + 1] = "{"
                     /\ u >= 1
                     /\ i + 2 + u <= Len(t)
                     /\ t[i + 2 + u] = "}"
                THEN [matched |-> TRUE, buser |-> SubSeq(t, i + 1, i + 2 + u),
                      next |-> i + 3 + u]
             ELSE NoMatch

\* replace_links_to_users.replace_user; lookup_user returns a str in both
\* of its branches, so the "guser is None" branch is never taken
replace_user(m) == << "@" >> \o lookup_user(m.buser)

\* MENTION_RE.sub(replace_user, body), from position i
RECURSIVE SubMentions(_, _)
SubMentions(t, i) ==
    LET hits == { j \in i..Len(t) : MentionMatch(t, j).matched }
    IN  IF hits = {} THEN SubSeq(t, i, Len(t))
        ELSE LET m == MentionMatch(t, Min(hits))
             IN  SubSeq(t, i, Min(hits) - 1) \o replace_user(m)
                     \o SubMentions(t, m.next)

replace_links_to_users(t) == Returned(SubMentions(t, 1))

\* ------------------------------------------------------------ map_content
\* the four link passes of map_content, each on the output of the one
\* before; an exception raised by the last one is the result
RewriteLinks(content) ==
    LET t1 == replace_explicit_links_to_issues(content)
        t2 == replace_implicit_links_to_issues(t1.text)
        t3 == replace_explicit_links_to_prs(t2.text)
    IN  replace_implicit_links_to_prs(t3.text)

\* ------------------------------------------------------ bodies under test
\* the pieces bodies are put together from
Piece ==
    [p \in {"sp", "x", "dash", "at", "alice", "bob", "uuid", "lb", "rb",
            "see", "issue4", "issue4i", "pull3", "pull3i", "r_", "s_",
            "pr_r3", "pr_s9", "pr_x3", "diff", "is_r4"} |->
        CASE p = "sp" -> << " " >>
          [] p = "x" -> << "x" >>
          [] p = "dash" -> << "-" >>
          [] p = "at" -> << "@" >>
          [] p = "alice" -> << "@" >> \o S_alice
          [] p = "bob" -> << "@" >> \o S_bob
          [] p = "uuid" -> << "@" >> \o S_uuid
          [] p = "lb" -> << "[" >>
          [] p = "rb" -> << "]" >>
          [] p = "see" -> S_see
          [] p = "issue4" -> S_issue_hash \o << "4" >>
          [] p = "pull3" -> S_pull_request_hash \o << "3" >>
          [] p = "issue4i" -> S_issue_hash \o << "4" >> \o S_slash_i
          [] p = "pull3i" -> S_pull_request_hash \o << "3" >> \o S_slash_i
          [] p = "r_" -> << "r", " " >>
          [] p = "s_" -> << "s", " " >>
          [] p = "pr_r3" -> S_bitbucket \o RepoChars["o/r"] \o S_pull_request
                                \o << "s", "/", "3" >>
          [] p = "pr_s9" -> S_bitbucket \o RepoChars["o/s"] \o S_pull_request
                                \o << "/", "9" >>
          [] p = "pr_x3" -> S_bitbucket \o RepoChars["o/x"] \o S_pull_request
                                \o << "s", "/", "3" >>
          [] p = "diff" -> S_diff
          [] p = "is_r4" -> S_bitbucket \o RepoChars["o/r"] \o S_issue
                                \o << "s", "/", "4" >>]

MentionPieces == {"sp", "x", "dash", "at", "alice", "bob", "uuid"}
ShorthandPieces ==
    {"see", "lb", "rb", "issue4", "issue4i", "pull3", "pull3i", "r_", "s_"}
LinkPieces == {"sp", "x", "rb", "pr_r3", "pr_s9", "pr_x3", "diff"}
MixedPieces == {"sp", "is_r4", "issue4i", "pull3i", "pr_r3"}

SeqsUpTo(S, n) == UNION { [1..k -> S] : k \in 0..n }

PartLists ==
    SeqsUpTo(MentionPieces, MaxParts) \cup SeqsUpTo(ShorthandPieces, MaxParts)
        \cup SeqsUpTo(LinkPieces, MaxParts) \cup SeqsUpTo(MixedPieces, MaxParts)

\* config.KNOWN_ISSUES_COUNT_MAPPING of the rewriting passes
TextCountMappings ==
    { << >>, ("o/r" :> 2), ("o/r" :> 2) @@ ("o/s" :> 4) }

\* the body given to a pass
body == Flatten([k \in 1..Len(body_parts) |-> Piece[body_parts[k]]])

TextInit ==
    /\ body_parts \in PartLists
    /\ pass = "none"
    /\ result = Returned(<< >>)
    /\ KNOWN_ISSUES_COUNT_MAPPING \in TextCountMappings
    /\ bitbucket = [issues |-> << >>, pulls |-> << >>]
    /\ github = << >>
    /\ args = [skip_attachments |-> FALSE]
    /\ pc = "idle"
    /\ run = 0
    /\ bissues = << >>
    /\ bpulls = << >>
    /\ pulls_id_offset = 0
    /\ attachment_gist_by_issue_id = {}
    /\ issues_and_pulls = << >>
    /\ existing_gissues = {}
    /\ existing_gpulls = {}
    /\ index = 1
    /\ log = << >>
    /\ github_at_start = << >>
    /\ source_item = << >>
    /\ assembled = << >>
    /\ cmap = {}
    /\ bnicknames = {}
    /\ bissue_id = << >>

Call(name, r) ==
    /\ pass = "none"
    /\ pass' = name
    /\ result' = r
    /\ UNCHANGED << body_parts, rvars, avars >>

Call_replace_explicit_links_to_issues ==
    Call("explicit_issues", replace_explicit_links_to_issues(body))

Call_replace_implicit_links_to_issues ==
    Call("implicit_issues", replace_implicit_links_to_issues(body))

Call_replace_explicit_links_to_prs ==
    Call("explicit_prs", replace_explicit_links_to_prs(body))

Call_replace_implicit_links_to_prs ==
    Call("implicit_prs", replace_implicit_links_to_prs(body))

Call_replace_links_to_users ==
    Call("users", replace_links_to_users(body))

\* map_content, statement by statement: tmp is kept in result, and an
\* exception raised by a statement ends the call
Statement(before, after, r) ==
    /\ pass = before
    /\ result.ok
    /\ pass' = after
    /\ result' = r
    /\ UNCHANGED << body_parts, rvars, avars >>

map_content_explicit_issues ==
    Statement("none", "map_content:209",
              replace_explicit_links_to_issues(body))

map_content_implicit_issues ==
    Statement("map_content:209", "map_content:210",
              replace_implicit_links_to_issues(result.text))

map_content_explicit_prs ==
    Statement("map_content:210", "map_content:211",
              replace_explicit_links_to_prs(result.text))

map_content_implicit_prs ==
    Statement("map_content:211", "map_content:212",
              replace_implicit_links_to_prs(result.text))

map_content_users ==
    Statement("map_content:212", "map_content:213",
              replace_links_to_users(result.text))

TextNext ==
    \/ Call_replace_explicit_links_to_issues
    \/ Call_replace_implicit_links_to_issues
    \/ Call_replace_explicit_links_to_prs
    \/ Call_replace_implicit_links_to_prs
    \/ Call_replace_links_to_users
    \/ map_content_explicit_issues
    \/ map_content_implicit_issues
    \/ map_content_explicit_prs
    \/ map_content_implicit_prs
    \/ map_content_users

TextSpec == TextInit /\ [][TextNext]_vars

\* ====================================================== content assembler
\* Python's None and a value that is present; a list of at most one element
None == << >>
Some(x) == << x >>

\* config.STATE_MAPPING (config.py is not part of src/): state -> label
STATE_MAPPING ==
    ("new" :> None) @@ ("open" :> None) @@ ("on hold" :> Some("on hold"))
        @@ ("resolved" :> None) @@ ("wontfix" :> Some("wontfix"))
        @@ ("OPEN" :> None) @@ ("MERGED" :> Some("merged"))
        @@ ("DECLINED" :> Some("declined"))

\* config.OPEN_ISSUE_OR_PULL_REQUEST_STATES (config.py is not part of src/)
OPEN_ISSUE_OR_PULL_REQUEST_STATES == {"new", "open", "on hold", "OPEN"}

\* every state taken for closed, whatever the configuration says
map_bstate_to_gstate_AlwaysClosed(bissue) == "closed"

map_bstate_to_gstate(bissue) ==
    IF bissue.state \in OPEN_ISSUE_OR_PULL_REQUEST_STATES THEN "open" ELSE "closed"

\* map_bstate_to_glabels: the labels and what is printed
map_bstate_to_glabels(bissue) ==
    IF bissue.state \in DOMAIN STATE_MAPPING
       THEN [labels |-> STATE_MAPPING[bissue.state], printed |-> << >>]
       ELSE [labels |-> << >>,
             printed |-> << [msg |-> "Warning: ignoring bitbucket issue state",
                             state |-> bissue.state] >>]

map_buser_to_guser(buser) ==
    IF buser = None THEN None ELSE Some(lookup_user(buser[1].nickname))

map_brepo_to_grepo(brepo) ==
    IF brepo \notin DOMAIN KNOWN_REPO_MAPPING THEN None
    ELSE Some(KNOWN_REPO_MAPPING[brepo])

\* CommitMap.convert_commit_hash: the git hash, or None for an unknown hash
convert_commit_hash(bhash) ==
    IF bhash \in cmap THEN Some(<< "git", bhash >>) ELSE None

\* convert_date: a source timestamp is [second, micro]; the date and the time
\* of day to the second are kept, the fraction of the second is dropped
convert_date(bb_date) == bb_date.second

\* the content as map_content returns it. The passes are applied to texts
\* elsewhere in this module; here a content is carried as it is, marked as
\* rewritten, and no content on which a pass raises is among the inputs
rewritten(content) == Returned(<< "rewritten", content >>)

\* the result of an assembler: what it returns, or the exception it raises,
\* with what it printed until then
Built(v, printed) == [ok |-> TRUE, value |-> v, printed |-> printed]
Failed(e, printed) == [ok |-> FALSE, error |-> e, printed |-> printed]

\* ---------------------------------------------------------------- comments
\* construct_gcomment_body: "> **@" + None raises TypeError; the quoted
\* parent reply and the inline position are left out of the body
construct_gcomment_body(bcomment) ==
    IF map_buser_to_guser(bcomment.user) = None THEN Failed("TypeError", << >>)
    ELSE LET text == rewritten(bcomment.raw[1])
         IN  IF ~text.ok THEN Failed(text.error, << >>)
             ELSE Built([of |-> "reply", id |-> bcomment.id,
                         by |-> map_buser_to_guser(bcomment.user)[1],
                         text |-> text.text], << >>)

\* the sort that puts a comment before the earlier ones of the same key
RECURSIVE sort_TiesReversed(_)
sort_TiesReversed(comments) ==
    IF comments = << >> THEN << >>
    ELSE LET n == Len(comments)
             c == comments[n]
             rest == sort_TiesReversed(SubSeq(comments, 1, n - 1))
             k == Cardinality({ j \in 1..Len(rest) :
                                  rest[j].created_at < c.created_at })
         IN  SubSeq(rest, 1, k) \o << c >> \o SubSeq(rest, k + 1, Len(rest))

\* comments.sort(key=lambda x: x["created_at"]): ascending and stable
RECURSIVE sort(_)
sort(comments) ==
    IF comments = << >> THEN << >>
    ELSE LET n == Len(comments)
             c == comments[n]
             rest == sort(SubSeq(comments, 1, n - 1))
             k == Cardinality({ j \in 1..Len(rest) :
                                  rest[j].created_at <= c.created_at })
         IN  SubSeq(rest, 1, k) \o << c >> \o SubSeq(rest, k + 1, Len(rest))

\* construct_gissue_comments: empty and deleted comments are skipped
IsKeptComment(bcomment) == bcomment.raw /= None /\ ~bcomment.deleted

construct_gissue_comments(bcomments) ==
    LET kept == SelectSeq(bcomments, IsKeptComment)
        bodies == [k \in 1..Len(kept) |-> construct_gcomment_body(kept[k])]
        failed == { k \in 1..Len(kept) : ~bodies[k].ok }
    IN  IF failed /= {} THEN Failed(bodies[Min(failed)].error, << >>)
        ELSE Built(sort([k \in 1..Len(kept) |->
                            [body |-> bodies[k].value,
                             created_at |-> convert_date(kept[k].created_on)]]),
                   << >>)

\* construct_gcomment_body_for_change: one line per changed key that is not
\* on the blacklist
NotBlacklisted(changed_key) ==
    changed_key \notin {"content", "title", "assignee_account_id"}

construct_gcomment_body_for_change(bchange) ==
    SelectSeq(bchange.changes, NotBlacklisted)

\* construct_gissue_comments_for_changes: changes with an empty body are
\* skipped, the others are kept in the order of the provider
HasBody(bchange) == construct_gcomment_body_for_change(bchange) /= << >>

construct_gissue_comments_for_changes(bchanges) ==
    LET kept == SelectSeq(bchanges, HasBody)
    IN  [k \in 1..Len(kept) |->
            [body |-> [of |-> "change", id |-> kept[k].id,
                       keys |-> construct_gcomment_body_for_change(kept[k])],
             created_at |-> convert_date(kept[k].created_on)]]

\* construct_gissue_comments_for_activity: the approvals, in the order of the
\* provider; updates and comment activities are skipped
IsApproval(single_activity) == single_activity.kind = "approval"

construct_gissue_comments_for_activity(bactivity) ==
    LET kept == SelectSeq(bactivity, IsApproval)
    IN  [k \in 1..Len(kept) |->
            [body |-> [of |-> "approval", id |-> kept[k].id,
                       by |-> map_buser_to_guser(kept[k].user)],
             created_at |-> convert_date(kept[k].date)]]

\* ------------------------------------------------------------------ bodies
\* BitbucketExport.get_issue_attachments: the names of the attachments
get_issue_attachments(bissue) ==
    IF bissue.attachments THEN << "a.txt", "b.txt" >> ELSE << >>

\* every attachment rendered as a link, whether or not there is a gist
attachment_line_AlwaysLinked(name, issue_id, gists) ==
    [name |-> name, link |-> "raw_url"]

\* construct_gissue_body: the line of one attachment
attachment_line(name, issue_id, gists) ==
    IF issue_id \in gists
       THEN [name |-> name, link |-> "raw_url"]
       ELSE [name |-> name, link |-> "(missing link)"]

\* construct_gissue_body: header, content and attachments; the dates of the
\* header are left out. "> Created by **@" + None raises TypeError
construct_gissue_body(bissue, battachments, gists) ==
    IF map_buser_to_guser(bissue.reporter) = None
       THEN Failed("TypeError", << >>)
    ELSE LET content == rewritten(bissue.content)
         IN  IF ~content.ok THEN Failed(content.error, << >>)
             ELSE Built(
                    [created_by |-> map_buser_to_guser(bissue.reporter)[1],
                     content |-> content.text,
                     attachments |->
                         [k \in 1..Len(battachments) |->
                             attachment_line(battachments[k], bissue.id, gists)]],
                    [k \in 1..(IF bissue.id \in gists
                                  THEN 0 ELSE Len(battachments)) |->
                        [msg |-> "Error: missing gist for the attachments of issue",
                         id |-> bissue.id]])

\* construct_gpull_request_body. The source and the destination always have
\* a branch, the destination always has a repository and a commit. Without
\* source repository and source commit, source_ghash is never assigned and
\* the test of line 364 raises UnboundLocalError; with only one of the two,
\* subscripting None raises TypeError. The test of line 364 is on the source
\* hash, not on the destination hash.
construct_gpull_request_body(bpull) ==
    LET source == bpull.source
        destination == bpull.destination
        participants ==
            [k \in 1..Len(bpull.participants) |->
                [user |-> map_buser_to_guser(bpull.participants[k].user),
                 reviewer |-> bpull.participants[k].role = "REVIEWER",
                 approved |-> bpull.participants[k].approved]]
        destination_brepo == destination.repository[1].full_name
        destination_bhash == destination.commit[1].hash
        wrong_destination ==
            IF destination_brepo /= BRepo
               THEN << [msg |-> "Error: the destination of a pull request is not the repository",
                        repo |-> destination_brepo] >>
               ELSE << >>
    IN  IF source.repository = None /\ source.commit = None
           THEN Failed("UnboundLocalError", wrong_destination)
        ELSE IF source.repository = None \/ source.commit = None
           THEN Failed("TypeError", << >>)
        ELSE
          LET source_bhash == source.commit[1].hash
              source_ghash == convert_commit_hash(source_bhash)
              unmapped_source ==
                  IF source_ghash = None
                     THEN << [msg |-> "Error: could not map mercurial commit (source of a PR)",
                              hash |-> source_bhash] >>
                     ELSE << >>
              unmapped_destination ==
                  IF source_ghash = None
                     THEN << [msg |-> "Error: could not map mercurial commit (destination of a PR)",
                              hash |-> source_bhash] >>
                     ELSE << >>
              printed == unmapped_source \o wrong_destination
                             \o unmapped_destination
              content == rewritten(bpull.description)
          IN  IF ~content.ok THEN Failed(content.error, printed)
              ELSE Built(
                     [created_by |-> map_buser_to_guser(bpull.author),
                      participants |-> participants,
                      source |->
                          [grepo |-> map_brepo_to_grepo(
                                         source.repository[1].full_name),
                           ghash |-> source_ghash],
                      destination |->
                          [grepo |-> map_brepo_to_grepo(destination_brepo),
                           ghash |-> convert_commit_hash(destination_bhash)],
                      merge_commit |->
                          IF bpull.merge_commit = None THEN None
                          ELSE Some(convert_commit_hash(
                                        bpull.merge_commit[1].hash)),
                      state |-> bpull.state,
                      content |-> content.text],
                     printed)

\* the title of the pull request taken over without the prefix
construct_gissue_title_for_pull_NoPrefix(bpull) == << bpull.title >>

\* construct_gissue_title_for_pull
construct_gissue_title_for_pull(bpull) == << "[PR] ", bpull.title >>

\* the elements of a list
Range(s) == { s[k] : k \in 1..Len(s) }

\* ------------------------------------------------------------------- items
\* construct_gissue_from_bissue: the issue and its comments, or the
\* exception; the labels of kind, priority and component are left out
construct_gissue_from_bissue(bissue, gists) ==
    LET battachments == get_issue_attachments(bissue)
        issue_body == construct_gissue_body(bissue, battachments, gists)
        replies == construct_gissue_comments(bissue.comments)
        labels == map_bstate_to_glabels(bissue)
    IN  IF ~issue_body.ok THEN issue_body
        ELSE IF ~replies.ok THEN Failed(replies.error, issue_body.printed)
        ELSE Built(
               [title |-> bissue.title,
                body |-> issue_body.value,
                assignee |-> map_buser_to_guser(bissue.assignee),
                closed |-> map_bstate_to_gstate(bissue) = "closed",
                labels |-> Range(labels.labels),
                comments |->
                    sort(replies.value
                           \o construct_gissue_comments_for_changes(
                                  bissue.changes))],
               issue_body.printed \o labels.printed)

\* construct_gissue_or_gpull_from_bpull: type and data, or the exception
construct_gissue_or_gpull_from_bpull(bpull) ==
    LET issue_body == construct_gpull_request_body(bpull)
        replies == construct_gissue_comments(bpull.comments)
        comments ==
            sort(replies.value
                   \o construct_gissue_comments_for_activity(bpull.activity))
        labels == map_bstate_to_glabels(bpull)
        is_closed == map_bstate_to_gstate(bpull) = "closed"
        printed == issue_body.printed \o labels.printed
    IN  IF ~issue_body.ok THEN issue_body
        ELSE IF ~replies.ok THEN Failed(replies.error, issue_body.printed)
        ELSE IF is_closed
        THEN Built([type |-> "issue",
                    data |-> [title |-> construct_gissue_title_for_pull(bpull),
                              body |-> issue_body.value,
                              assignee |-> map_buser_to_guser(bpull.author),
                              closed |-> is_closed,
                              labels |-> {"pull request"}
                                             \cup Range(labels.labels),
                              comments |-> comments]],
                   printed)
        ELSE Built([type |-> "pull",
                    data |-> [title |-> construct_gissue_title_for_pull(bpull),
                              body |-> issue_body.value,
                              assignees |-> << map_buser_to_guser(bpull.author) >>,
                              closed |-> is_closed,
                              labels |-> {"pull request"}
                                             \cup Range(labels.labels),
                              base |-> "TODO",
                              head |-> "TODO",
                              comments |-> comments]],
                   printed)

\* ------------------------------------------------- source items under test
Alice == Some([nickname |-> S_alice])
Bob == Some([nickname |-> S_bob])

\* the mercurial hashes of the source and the destination commit
SourceHash == "hs"
DestinationHash == "hd"
Hashes == {SourceHash, DestinationHash}

\* timestamps of the source: whole seconds, and one within second 1
Stamps ==
    { [second |-> s, micro |-> 0] : s \in 1..MaxTime }
        \cup { [second |-> 1, micro |-> 500000] }

\* a source issue and a source pull request with nothing special about them
DefaultIssue ==
    [track |-> "issue", id |-> 1, title |-> << "issue", 1 >>, state |-> "new",
     reporter |-> Alice, assignee |-> None, content |-> S_see,
     attachments |-> FALSE, comments |-> << >>, changes |-> << >>]

DefaultPull ==
    [track |-> "pull", id |-> 1, title |-> << "pull", 1 >>, state |-> "OPEN",
     author |-> Alice, description |-> S_see, participants |-> << >>,
     reviewers |-> << >>,
     source |-> [repository |-> Some([full_name |-> BRepo]),
                 commit |-> Some([hash |-> SourceHash])],
     destination |-> [repository |-> Some([full_name |-> BRepo]),
                      commit |-> Some([hash |-> DestinationHash])],
     merge_commit |-> None, comments |-> << >>, activity |-> << >>]

\* replies: at each timestamp, and one empty, one deleted, one without user
ReplyShapes ==
    { [created_on |-> t, raw |-> Some(<< "x" >>), deleted |-> FALSE,
       user |-> Alice] : t \in Stamps }
      \cup { [created_on |-> [second |-> 1, micro |-> 0], raw |-> None,
              deleted |-> FALSE, user |-> Alice],
             [created_on |-> [second |-> 1, micro |-> 0],
              raw |-> Some(<< "x" >>), deleted |-> TRUE, user |-> Alice],
             [created_on |-> [second |-> 1, micro |-> 0],
              raw |-> Some(<< "x" >>), deleted |-> FALSE, user |-> None] }

\* field changes: of the state at each timestamp, and one of the title only
ChangeShapes ==
    { [created_on |-> t, changes |-> << "title", "state" >>, user |-> Alice] :
        t \in Stamps }
      \cup { [created_on |-> [second |-> 1, micro |-> 0],
              changes |-> << "title" >>, user |-> Alice] }

\* pull request activity: an approval at each timestamp, and one update
ActivityShapes ==
    { [kind |-> "approval", date |-> t, user |-> Alice] : t \in Stamps }
      \cup { [kind |-> "update", date |-> [second |-> 1, micro |-> 0],
              user |-> Alice] }

\* the lists of up to MaxComments records of these shapes, the id of a
\* record being its position
Numbered(shapes) ==
    { [k \in 1..Len(s) |-> [id |-> k] @@ s[k]] :
        s \in SeqsUpTo(shapes, MaxComments) }

\* issues and pull requests that differ in their comments only, the replies
\* being one of the given lists
CommentedItems(replies) ==
    { [DefaultIssue EXCEPT !.comments = cs, !.changes = ch] :
        cs \in replies, ch \in Numbered(ChangeShapes) }
      \cup
    { [DefaultPull EXCEPT !.comments = cs, !.activity = ac] :
        cs \in replies, ac \in Numbered(ActivityShapes) }

\* issues that differ in state, reporter and attachments
IssueStates == {"new", "on hold", "resolved", "wontfix", "weird"}
VariedIssues ==
    { [DefaultIssue EXCEPT !.state = st, !.reporter = rp,
                           !.attachments = at] :
        st \in IssueStates, rp \in {None, Alice}, at \in BOOLEAN }

\* pull requests that differ in state, author and the parts of the source
\* and the destination
AllPullStates == {"OPEN", "MERGED", "DECLINED", "weird"}
VariedPulls ==
    { [DefaultPull EXCEPT !.state = st, !.author = au,
                          !.source = [repository |-> sr, commit |-> sc],
                          !.destination.repository = dr] :
        st \in AllPullStates, au \in {None, Alice},
        sr \in {None, Some([full_name |-> BRepo])},
        sc \in {None, Some([hash |-> SourceHash])},
        dr \in {Some([full_name |-> BRepo]), Some([full_name |-> "o/s"])} }

AssembleInit ==
    /\ \/ /\ source_item \in CommentedItems(Numbered(ReplyShapes))
          /\ cmap = Hashes
          /\ attachment_gist_by_issue_id = {}
       \/ /\ source_item \in VariedIssues
          /\ cmap = Hashes
          /\ attachment_gist_by_issue_id \in {{}, {1}}
       \/ /\ source_item \in VariedPulls
          /\ cmap \in SUBSET Hashes
          /\ attachment_gist_by_issue_id = {}
    /\ assembled = << >>
    /\ KNOWN_ISSUES_COUNT_MAPPING = (BRepo :> 1)
    /\ bitbucket = [issues |-> << >>, pulls |-> << >>]
    /\ github = << >>
    /\ args = [skip_attachments |-> FALSE]
    /\ pc = "idle"
    /\ run = 0
    /\ bissues = << >>
    /\ bpulls = << >>
    /\ pulls_id_offset = 0
    /\ issues_and_pulls = << >>
    /\ existing_gissues = {}
    /\ existing_gpulls = {}
    /\ index = 1
    /\ log = << >>
    /\ github_at_start = << >>
    /\ body_parts = << >>
    /\ pass = "none"
    /\ result = Returned(<< >>)
    /\ bnicknames = {}
    /\ bissue_id = << >>

Call_construct_gissue_from_bissue ==
    /\ assembled = << >>
    /\ source_item.track = "issue"
    /\ assembled' = construct_gissue_from_bissue(source_item,
                                                 attachment_gist_by_issue_id)
    /\ UNCHANGED << rvars, tvars, source_item, cmap, bnicknames, bissue_id >>

Call_construct_gissue_or_gpull_from_bpull ==
    /\ assembled = << >>
    /\ source_item.track = "pull"
    /\ assembled' = construct_gissue_or_gpull_from_bpull(source_item)
    /\ UNCHANGED << rvars, tvars, source_item, cmap, bnicknames, bissue_id >>

AssembleNext ==
    \/ Call_construct_gissue_from_bissue
    \/ Call_construct_gissue_or_gpull_from_bpull

AssembleSpec == AssembleInit /\ [][AssembleNext]_vars

\* =============================================================== the run
\* ------------------------------------------------------- run: environment
PullStates == {"OPEN", "MERGED"}
Kinds == {"issue", "pull"}

\* the ascending sequence of the elements of a set of numbers
SortedSeq(S) ==
    CHOOSE s \in [1..Cardinality(S) -> S] :
        \A a, b \in 1..Cardinality(S) : a < b => s[a] < s[b]

\* BitbucketExport.get_issues(): an ordered sequence of source issues, ids
\* unique and ascending (deleted issues leave gaps in the ids)
IssueLists ==
    { [k \in 1..Cardinality(ids) |->
          [DefaultIssue EXCEPT !.id = SortedSeq(ids)[k],
                               !.title = << "issue", SortedSeq(ids)[k] >>,
                               !.attachments = SortedSeq(ids)[k] \in att]] :
      ids \in SUBSET (1..MaxIssueId), att \in SUBSET (1..MaxIssueId) }

\* the author of the source pull requests of a run: a deleted account or a
\* mapped user
PullAuthors == { None, Alice }

\* BitbucketExport.get_pulls(): an ordered sequence of source pull requests;
\* pull requests are never deleted at the source, so their ids are 1..p
PullLists ==
    UNION { { [k \in 1..p |->
                  [DefaultPull EXCEPT !.id = k,
                                      !.title = << "pull", k >>,
                                      !.state = st[k],
                                      !.author = au]] :
              st \in [1..p -> PullStates], au \in PullAuthors } :
            p \in 0..MaxPulls }

\* the destination repository: number -> kind of the item at that number
Destinations == UNION { [S -> Kinds] : S \in SUBSET (1..MaxDest) }

\* config.KNOWN_ISSUES_COUNT_MAPPING restricted to the repository of the run
CountMappings ==
    { <<>> } \cup { [r \in {BRepo} |-> c] : c \in 0..MaxIssueId }

\* ------------------------------------------------------ destination client
\* GithubImport.get_issues() / get_pulls(): number -> existing item
get_issues(g) == { n \in DOMAIN g : g[n] = "issue" }
get_pulls(g) == { n \in DOMAIN g : g[n] = "pull" }
get_issues_count(g) == Cardinality(get_issues(g))
get_pulls_count(g) == Cardinality(get_pulls(g))

\* the destination numbers a created item sequentially
NextNumber(g) == Max(DOMAIN g) + 1

Created(g, kind) ==
    [n \in DOMAIN g \cup {NextNumber(g)} |->
        IF n \in DOMAIN g THEN g[n] ELSE kind]

\* ----------------------------------------------------------- pure helpers

\* the type under which a pull request is assembled
TypeOfPull(bpull) ==
    IF map_bstate_to_gstate(bpull) = "closed" THEN "issue" ELSE "pull"

\* the precondition with the comparison of the counts left out
PreconditionHolds_NoCountCheck ==
    BRepo \in DOMAIN KNOWN_ISSUES_COUNT_MAPPING

\* bitbucket_to_github: the two assertions on the configured issue count
PreconditionHolds ==
    /\ BRepo \in DOMAIN KNOWN_ISSUES_COUNT_MAPPING
    /\ KNOWN_ISSUES_COUNT_MAPPING[BRepo] = Len(bissues')

\* ------------------------------------------------------------------- Init
Init ==
    /\ bitbucket \in [issues : IssueLists, pulls : PullLists]
    /\ github \in Destinations
    /\ KNOWN_ISSUES_COUNT_MAPPING \in CountMappings
    /\ args \in [skip_attachments : BOOLEAN]
    /\ pc = "idle"
    /\ run = 0
    /\ bissues = << >>
    /\ bpulls = << >>
    /\ pulls_id_offset = 0
    /\ attachment_gist_by_issue_id = {}
    /\ issues_and_pulls = << >>
    /\ existing_gissues = {}
    /\ existing_gpulls = {}
    /\ index = 1
    /\ log = << >>
    /\ github_at_start = << >>
    /\ source_item = << >>
    /\ assembled = << >>
    /\ cmap = Hashes
    /\ bnicknames = {}
    /\ bissue_id = << >>
    /\ body_parts = << >>
    /\ pass = "none"
    /\ result = [ok |-> TRUE, text |-> << >>]

\* main(): without --dev and --check, calls bitbucket_to_github
main ==
    /\ pc \in {"idle", "done"}
    /\ run < MaxRuns
    /\ run' = run + 1
    /\ pc' = "retrieve"
    /\ bissues' = << >>
    /\ bpulls' = << >>
    /\ pulls_id_offset' = 0
    /\ attachment_gist_by_issue_id' = {}
    /\ issues_and_pulls' = << >>
    /\ existing_gissues' = {}
    /\ existing_gpulls' = {}
    /\ index' = 1
    /\ log' = << >>
    /\ github_at_start' = Append(github_at_start, github)
    /\ UNCHANGED << tvars, avars, env, github >>

\* bitbucket_to_github: retrieve data, assert the offset precondition
RetrieveData ==
    /\ pc = "retrieve"
    /\ bissues' = bitbucket.issues
    /\ bpulls' = bitbucket.pulls
    /\ IF PreconditionHolds
          THEN /\ pulls_id_offset' = KNOWN_ISSUES_COUNT_MAPPING[BRepo]
               /\ pc' = "attachments"
          ELSE /\ pulls_id_offset' = pulls_id_offset
               /\ pc' = "AssertionError"
    /\ index' = 1
    /\ UNCHANGED << tvars, avars, env, github, run, attachment_gist_by_issue_id,
                    issues_and_pulls, existing_gissues, existing_gpulls, log,
                    github_at_start >>

\* bitbucket_to_github: one iteration of the attachment loop, or the skip
MigrateAttachments ==
    /\ pc = "attachments"
    /\ IF args.skip_attachments
          THEN /\ log' = Append(log, [ev |-> "warning_attachments_skipped"])
               /\ pc' = "prepare_issues"
               /\ index' = 1
               /\ UNCHANGED attachment_gist_by_issue_id
          ELSE IF index <= Len(bissues)
          THEN /\ IF bissues[index].attachments
                     THEN /\ log' = Append(log, [ev |-> "get_or_create_gist",
                                                 id |-> bissues[index].id])
                          /\ attachment_gist_by_issue_id' =
                                 attachment_gist_by_issue_id \cup {bissues[index].id}
                     ELSE UNCHANGED << log, attachment_gist_by_issue_id >>
               /\ index' = index + 1
               /\ pc' = pc
          ELSE /\ pc' = "prepare_issues"
               /\ index' = 1
               /\ UNCHANGED << log, attachment_gist_by_issue_id >>
    /\ UNCHANGED << tvars, avars, env, github, run, bissues, bpulls, pulls_id_offset,
                    issues_and_pulls, existing_gissues, existing_gpulls,
                    github_at_start >>

\* bitbucket_to_github: one iteration of "for bissue in bissues" (prepare)
PrepareIssue ==
    /\ pc = "prepare_issues"
    /\ IF index <= Len(bissues)
          THEN LET bissue == bissues[index]
                   r == construct_gissue_from_bissue(
                            bissue, attachment_gist_by_issue_id)
               IN  IF r.ok
                      THEN /\ issues_and_pulls' =
                                  Append(issues_and_pulls,
                                         [type |-> "issue", src |-> "issue",
                                          id |-> bissue.id, data |-> r.value])
                           /\ log' = Append(log, [ev |-> "assemble",
                                                  src |-> "issue",
                                                  id |-> bissue.id])
                           /\ index' = index + 1
                           /\ pc' = pc
                      ELSE /\ pc' = r.error
                           /\ UNCHANGED << issues_and_pulls, log, index >>
          ELSE /\ pc' = "prepare_pulls"
               /\ index' = 1
               /\ UNCHANGED << issues_and_pulls, log >>
    /\ UNCHANGED << tvars, avars, env, github, run, bissues, bpulls, pulls_id_offset,
                    attachment_gist_by_issue_id, existing_gissues,
                    existing_gpulls, github_at_start >>

\* bitbucket_to_github: one iteration of "for bpull in bpulls" (prepare)
PreparePull ==
    /\ pc = "prepare_pulls"
    /\ IF index <= Len(bpulls)
          THEN LET bpull == bpulls[index]
                   r == construct_gissue_or_gpull_from_bpull(bpull)
               IN  IF r.ok
                      THEN /\ issues_and_pulls' =
                                  Append(issues_and_pulls,
                                         [type |-> r.value.type, src |-> "pull",
                                          id |-> bpull.id,
                                          data |-> r.value.data])
                           /\ log' = Append(log, [ev |-> "assemble",
                                                  src |-> "pull",
                                                  id |-> bpull.id])
                           /\ index' = index + 1
                           /\ pc' = pc
                      ELSE /\ pc' = r.error
                           /\ UNCHANGED << issues_and_pulls, log, index >>
          ELSE /\ pc' = "fetch_existing"
               /\ index' = 1
               /\ UNCHANGED << issues_and_pulls, log >>
    /\ UNCHANGED << tvars, avars, env, github, run, bissues, bpulls, pulls_id_offset,
                    attachment_gist_by_issue_id, existing_gissues,
                    existing_gpulls, github_at_start >>

\* bitbucket_to_github: snapshot of the destination before the upload loop
FetchExisting ==
    /\ pc = "fetch_existing"
    /\ existing_gissues' = get_issues(github)
    /\ existing_gpulls' = get_pulls(github)
    /\ pc' = "upload"
    /\ index' = 1
    /\ UNCHANGED << tvars, avars, env, github, run, bissues, bpulls, pulls_id_offset,
                    attachment_gist_by_issue_id, issues_and_pulls, log,
                    github_at_start >>

\* the number taken as the 0-based index itself
NumberOf_ZeroBased(k) == k - 1

\* the number under which the upload loop handles position k (index + 1 of
\* the 0-based enumerate)
NumberOf(k) == k

\* the write call taking every number to exist at the destination
UploadCall_AlwaysUpdate(type, number) == "update_issue_with_comments"

\* the write call with the lookup in the snapshot left out
UploadCall_AlwaysCreate(type, number) ==
    IF type = "issue" THEN "create_issue_with_comments"
                      ELSE "create_pull_with_comments"

\* the write call the upload loop issues for an item of this type and number
UploadCall(type, number) ==
    IF type = "issue"
       THEN IF number \in existing_gissues
               THEN "update_issue_with_comments"
               ELSE "create_issue_with_comments"
       ELSE IF number \in existing_gpulls
               THEN "update_issue_with_comments"
               ELSE "create_pull_with_comments"

\* bitbucket_to_github: one iteration of the upload loop
Upload ==
    /\ pc = "upload"
    /\ IF index <= Len(issues_and_pulls)
          THEN LET item == issues_and_pulls[index]
                   number == NumberOf(index)
                   call == UploadCall(item.type, number)
               IN  /\ github' =
                          CASE call = "create_issue_with_comments" ->
                                   Created(github, "issue")
                            [] call = "create_pull_with_comments" ->
                                   Created(github, "pull")
                            [] OTHER -> github
                   /\ log' = Append(log,
                          [ev |-> call, number |-> number, src |-> item.src,
                           id |-> item.id, type |-> item.type,
                           target |-> IF call = "update_issue_with_comments"
                                         THEN number ELSE NextNumber(github)])
                   /\ index' = index + 1
                   /\ pc' = pc
          ELSE /\ pc' = "final_checks"
               /\ index' = 1
               /\ UNCHANGED << github, log >>
    /\ UNCHANGED << tvars, avars, env, run, bissues, bpulls, pulls_id_offset,
                    attachment_gist_by_issue_id, issues_and_pulls,
                    existing_gissues, existing_gpulls, github_at_start >>

\* the post-condition comparing the issue counts only
CountsDiffer_IssuesOnly ==
    Len(bissues) /= get_issues_count(github)

\* the post-condition of the run: source count against destination count
CountsDiffer ==
    Len(bissues) + Len(bpulls) /= get_issues_count(github) + get_pulls_count(github)

\* bitbucket_to_github: final checks
FinalChecks ==
    /\ pc = "final_checks"
    /\ log' = IF CountsDiffer
                 THEN Append(log, [ev |-> "error_wrong_count"])
                 ELSE log
    /\ pc' = "done"
    /\ UNCHANGED << tvars, avars, env, github, run, bissues, bpulls, pulls_id_offset,
                    attachment_gist_by_issue_id, issues_and_pulls,
                    existing_gissues, existing_gpulls, index, github_at_start >>

Next ==
    \/ main
    \/ RetrieveData
    \/ MigrateAttachments
    \/ PrepareIssue
    \/ PreparePull
    \/ FetchExisting
    \/ Upload
    \/ FinalChecks

Spec == Init /\ [][Next]_vars

\* ============================================================ check mode
MaxChecked == 1      \* source issues, and source pull requests, of a check

\* one reply written by this user
CommentBy(user) ==
    << [id |-> 1, created_on |-> [second |-> 1, micro |-> 0],
        raw |-> Some(<< "x" >>), deleted |-> FALSE, user |-> user] >>

\* source issues: one where every handle is in the user table, and one for
\* each place an unmapped handle or a deleted account can appear in
CheckedIssues ==
    { [DefaultIssue EXCEPT !.assignee = Alice, !.comments = CommentBy(Alice)],
      [DefaultIssue EXCEPT !.reporter = Bob],
      [DefaultIssue EXCEPT !.assignee = Bob],
      [DefaultIssue EXCEPT !.comments = CommentBy(Bob)],
      [DefaultIssue EXCEPT !.comments = CommentBy(None)] }

\* source pull requests, likewise
CheckedPulls ==
    { [DefaultPull EXCEPT !.comments = CommentBy(Alice)],
      [DefaultPull EXCEPT !.author = None],
      [DefaultPull EXCEPT !.author = Bob],
      [DefaultPull EXCEPT !.participants =
           << [user |-> Bob, role |-> "PARTICIPANT", approved |-> FALSE] >>],
      [DefaultPull EXCEPT !.reviewers = << Bob[1] >>],
      [DefaultPull EXCEPT !.comments = CommentBy(Bob)] }

\* the lists of up to MaxChecked of these items, ids by position
ListsOf(items) ==
    { [k \in 1..Len(s) |-> [s[k] EXCEPT !.id = k]] :
        s \in SeqsUpTo(items, MaxChecked) }

\* BitbucketExport.get_issue_comments: the replies of the issue of this id
get_issue_comments(id) ==
    LET k == CHOOSE k \in 1..Len(bitbucket.issues) : bitbucket.issues[k].id = id
    IN  bitbucket.issues[k].comments

\* the nicknames of a list of users
Nicknames(users) == { users[k].nickname : k \in 1..Len(users) }

\* the orders in which a loop can run through a set
Orders(S) ==
    { s \in [1..Cardinality(S) -> S] :
        \A a, b \in 1..Cardinality(S) : a /= b => s[a] /= s[b] }

CheckInit ==
    /\ bitbucket \in [issues : ListsOf(CheckedIssues),
                       pulls : ListsOf(CheckedPulls)]
    /\ github \in Destinations
    /\ KNOWN_ISSUES_COUNT_MAPPING \in CountMappings
    /\ args = [skip_attachments |-> FALSE]
    /\ pc = "idle"
    /\ run = 0
    /\ bissues = << >>
    /\ bpulls = << >>
    /\ pulls_id_offset = 0
    /\ attachment_gist_by_issue_id = {}
    /\ issues_and_pulls = << >>
    /\ existing_gissues = {}
    /\ existing_gpulls = {}
    /\ index = 1
    /\ log = << >>
    /\ github_at_start = << >>
    /\ source_item = << >>
    /\ assembled = << >>
    /\ cmap = Hashes
    /\ bnicknames = {}
    /\ bissue_id = << >>
    /\ body_parts = << >>
    /\ pass = "none"
    /\ result = Returned(<< >>)

\* what a step of check() leaves alone
CheckFrame ==
    UNCHANGED << tvars, env, github, pulls_id_offset,
                 attachment_gist_by_issue_id, issues_and_pulls,
                 existing_gissues, existing_gpulls, github_at_start,
                 source_item, assembled, cmap >>

\* main(): with --check, calls check()
main_check ==
    /\ pc = "idle"
    /\ run' = run + 1
    /\ pc' = "check_counts"
    /\ UNCHANGED << bissues, bpulls, index, log, bnicknames, bissue_id >>
    /\ CheckFrame

\* check: retrieve the data and compare the counts of the two sides
check_counts ==
    /\ pc = "check_counts"
    /\ bissues' = bitbucket.issues
    /\ bpulls' = bitbucket.pulls
    /\ log' = log
                \o (IF get_issues_count(github) /= 0
                       THEN << [ev |-> "warning_existing_issues"] >>
                       ELSE << >>)
                \o (IF get_issues_count(github) + get_pulls_count(github)
                          > Len(bitbucket.issues) + Len(bitbucket.pulls)
                       THEN << [ev |-> "error_too_many_items"] >>
                       ELSE << >>)
    /\ pc' = "check_config"
    /\ UNCHANGED << run, index, bnicknames, bissue_id >>
    /\ CheckFrame

\* check: the configuration of the repository; a repository missing from
\* KNOWN_ISSUES_COUNT_MAPPING is reported and then looked up: KeyError
check_config ==
    /\ pc = "check_config"
    /\ IF BRepo \notin DOMAIN KNOWN_ISSUES_COUNT_MAPPING
          THEN /\ log' = Append(log, [ev |-> "error_not_in_count_mapping"])
               /\ pc' = "KeyError"
               /\ UNCHANGED bnicknames
          ELSE /\ log' = IF KNOWN_ISSUES_COUNT_MAPPING[BRepo] /= Len(bissues)
                            THEN Append(log, [ev |-> "error_count_mapping"])
                            ELSE log
               /\ pc' = "check_issues"
               /\ bnicknames' = {}
    /\ index' = 1
    /\ UNCHANGED << run, bissues, bpulls, bissue_id >>
    /\ CheckFrame

\* check: one iteration of "for bissue in bissues"; the nickname of the user
\* None of a comment raises TypeError
check_issue ==
    /\ pc = "check_issues"
    /\ IF index <= Len(bissues)
          THEN LET bissue == bissues[index]
                   bcomments == get_issue_comments(bissue.id)
                   assignee == IF bissue.assignee /= None
                                  THEN { bissue.assignee[1].nickname }
                                  ELSE {}
               IN  /\ bissue_id' = Some(bissue.id)
                   /\ IF \E k \in 1..Len(bcomments) : bcomments[k].user = None
                         THEN /\ pc' = "TypeError"
                              /\ bnicknames' =
                                     bnicknames \cup assignee
                                         \cup { bcomments[k].user[1].nickname :
                                                  k \in { j \in 1..Len(bcomments) :
                                                            \A i \in 1..j :
                                                                bcomments[i].user /= None } }
                              /\ index' = index
                         ELSE /\ pc' = pc
                              /\ bnicknames' =
                                     bnicknames \cup assignee
                                         \cup { bcomments[k].user[1].nickname :
                                                  k \in 1..Len(bcomments) }
                              /\ index' = index + 1
          ELSE /\ pc' = "check_pulls"
               /\ index' = 1
               /\ UNCHANGED << bnicknames, bissue_id >>
    /\ UNCHANGED << run, bissues, bpulls, log >>
    /\ CheckFrame

\* check: one iteration of "for bpull in bpulls"; the comments are fetched
\* with get_issue_comments(bissue_id), the variable the issue loop left
\* behind, unbound when there was no issue: UnboundLocalError
check_pull ==
    /\ pc = "check_pulls"
    /\ IF index <= Len(bpulls)
          THEN LET bpull == bpulls[index]
                   author == IF bpull.author /= None
                                THEN { bpull.author[1].nickname }
                                ELSE {}
                   participants ==
                       { bpull.participants[k].user[1].nickname :
                           k \in 1..Len(bpull.participants) }
                   reviewers == Nicknames(bpull.reviewers)
               IN  IF bissue_id = None
                      THEN /\ pc' = "UnboundLocalError"
                           /\ bnicknames' = bnicknames \cup author
                                  \cup participants \cup reviewers
                           /\ index' = index
                      ELSE LET bcomments == get_issue_comments(bissue_id[1])
                           IN  /\ pc' = pc
                               /\ bnicknames' = bnicknames \cup author
                                      \cup participants \cup reviewers
                                      \cup { bcomments[k].user[1].nickname :
                                               k \in 1..Len(bcomments) }
                               /\ index' = index + 1
          ELSE /\ pc' = "check_users"
               /\ index' = 1
               /\ UNCHANGED bnicknames
    /\ UNCHANGED << run, bissues, bpulls, log, bissue_id >>
    /\ CheckFrame

\* check: "for nickname in bnicknames", a warning for every collected
\* nickname that is not in USER_MAPPING, in the order the set yields them
check_users ==
    /\ pc = "check_users"
    /\ \E order \in Orders(bnicknames \ DOMAIN USER_MAPPING) :
           log' = log \o [k \in 1..Len(order) |->
                             [ev |-> "warning_not_in_user_mapping",
                              nickname |-> order[k]]]
    /\ pc' = "checked"
    /\ UNCHANGED << run, bissues, bpulls, index, bnicknames, bissue_id >>
    /\ CheckFrame

CheckNext ==
    \/ main_check
    \/ check_counts
    \/ check_config
    \/ check_issue
    \/ check_pull
    \/ check_users

CheckSpec == CheckInit /\ [][CheckNext]_vars

\* ------------------------------------------------- claims on the full run
UploadEvents ==
    {"create_issue_with_comments", "update_issue_with_comments",
     "create_pull_with_comments", "update_pull_with_comments"}
CreateEvents == {"create_issue_with_comments", "create_pull_with_comments"}
UpdateEvents == {"update_issue_with_comments", "update_pull_with_comments"}
WriteEvents == UploadEvents \cup {"get_or_create_gist"}

IsUpload(e) == e.ev \in UploadEvents

\* the create and update calls of the current run, in the order issued
Uploads == SelectSeq(log, IsUpload)

SourceCount == Len(bitbucket.issues) + Len(bitbucket.pulls)

\* the configured issue count is missing or differs from the fetched count
OffsetPreconditionFails ==
    \/ BRepo \notin DOMAIN KNOWN_ISSUES_COUNT_MAPPING
    \/ KNOWN_ISSUES_COUNT_MAPPING[BRepo] /= Len(bitbucket.issues)

\* C1: when the configured issue count of the source repository is missing
\* or differs from the number of fetched issues, the run aborts before any
\* destination write: no bundle is created, no create or update call is
\* issued, and the destination stays as the run found it.
C1_AbortBeforeAnyWrite ==
    (OffsetPreconditionFails /\ run > 0) =>
        /\ pc \in {"retrieve", "AssertionError"}
        /\ \A k \in 1..Len(log) : log[k].ev \notin WriteEvents
        /\ github = github_at_start[run]

C1_Witness ==
    /\ pc = "AssertionError"
    /\ BRepo \in DOMAIN KNOWN_ISSUES_COUNT_MAPPING
    /\ KNOWN_ISSUES_COUNT_MAPPING[BRepo] /= Len(bissues)
    /\ ~args.skip_attachments
    /\ \E k \in 1..Len(bissues) : bissues[k].attachments
    /\ Len(bpulls) > 0

\* C2: the number under which the upload loop creates or updates an item is
\* k for the source issue with id k and k + offset for the source pull
\* request with id k, offset being the configured issue count.
C2_NumberIsIdPlusOffset ==
    \A k \in 1..Len(log) :
        IsUpload(log[k]) =>
            log[k].number = IF log[k].src = "issue"
                               THEN log[k].id
                               ELSE log[k].id + KNOWN_ISSUES_COUNT_MAPPING[BRepo]

\* the type the assembler computes for unified number k
AssembledType(k) ==
    IF k <= Len(bitbucket.issues)
       THEN "issue"
       ELSE TypeOfPull(bitbucket.pulls[k - Len(bitbucket.issues)])

\* the destination holds exactly the numbers 1..m, m at most the number of
\* source items, each of the type assembled for its number (m = 0: empty)
IsMigratedPrefix(g) ==
    /\ DOMAIN g = 1..Cardinality(DOMAIN g)
    /\ Cardinality(DOMAIN g) <= SourceCount
    /\ \A k \in DOMAIN g : g[k] = AssembledType(k)

\* C3: a second run against the same source and the destination a completed
\* first run populated (the first run having started on an empty or partly
\* migrated destination) issues exactly one update call and no create call
\* for every unified number, and leaves the destination item count unchanged.
C3_SecondRunOnlyUpdates ==
    (run = 2 /\ pc = "done" /\ IsMigratedPrefix(github_at_start[1])) =>
        /\ Len(Uploads) = SourceCount
        /\ \A k \in 1..Len(Uploads) :
               /\ Uploads[k].ev \in UpdateEvents
               /\ Uploads[k].number = k
               /\ Uploads[k].target = k
        /\ Cardinality(DOMAIN github) = Cardinality(DOMAIN github_at_start[2])
        /\ github = github_at_start[2]

C3_Witness ==
    /\ run = 2
    /\ pc = "done"
    /\ github_at_start[1] = << >>
    /\ Len(bitbucket.issues) > 0
    /\ \E k \in 1..Len(bitbucket.pulls) : bitbucket.pulls[k].state = "OPEN"
    /\ \E k \in 1..Len(bitbucket.pulls) : bitbucket.pulls[k].state = "MERGED"
    /\ Len(Uploads) = SourceCount

\* C4: for each unified number n, if a destination item (issue or pull
\* request) exists at n in the snapshot, an update call is issued against
\* that item and no create call; otherwise exactly one create call is issued.
C4_UpdateIffExists ==
    pc \in {"upload", "final_checks", "done"} =>
        \A k \in 1..Len(Uploads) :
            LET n == Uploads[k].number
            IN  IF n \in existing_gissues \cup existing_gpulls
                   THEN Uploads[k].ev \in UpdateEvents /\ Uploads[k].target = n
                   ELSE Uploads[k].ev \in CreateEvents

\* the processing order the numbering rests on: the source issues by
\* ascending id, then the source pull requests by ascending id
IssueIds == { bitbucket.issues[k].id : k \in 1..Len(bitbucket.issues) }
PullIds == { bitbucket.pulls[k].id : k \in 1..Len(bitbucket.pulls) }
IntendedOrder ==
    [k \in 1..SourceCount |->
        IF k <= Cardinality(IssueIds)
           THEN [src |-> "issue", id |-> SortedSeq(IssueIds)[k]]
           ELSE [src |-> "pull",
                 id |-> SortedSeq(PullIds)[k - Cardinality(IssueIds)]]]

\* C5: items are created or updated in the order: all source issues by
\* ascending id, then all source pull requests by ascending id; the unified
\* number of an item is its 1-based position in that order, without gaps or
\* reordering, and the finished loop has handled every source item.
C5_ProcessingOrder ==
    /\ Len(Uploads) <= SourceCount
    /\ \A k \in 1..Len(Uploads) :
           /\ Uploads[k].number = k
           /\ Uploads[k].src = IntendedOrder[k].src
           /\ Uploads[k].id = IntendedOrder[k].id
    /\ pc \in {"final_checks", "done"} => Len(Uploads) = SourceCount

C5_Witness ==
    /\ pc = "done"
    /\ Len(bitbucket.issues) = 2
    /\ Len(bitbucket.pulls) = 2
    /\ Len(Uploads) = 4

\* C6: after the upload loop, when the destination item count differs from
\* the source item count, the final check reports the mismatch as an error,
\* raises nothing, writes nothing more and the run completes normally.
C6_MismatchReportedNotRaised ==
    [][(pc = "final_checks"
          /\ Cardinality(DOMAIN github) /= Len(bissues) + Len(bpulls))
       => /\ pc' = "done"
          /\ github' = github
          /\ log' = Append(log, [ev |-> "error_wrong_count"])]_vars

C6_Witness ==
    /\ pc = "done"
    /\ Cardinality(DOMAIN github) /= SourceCount
    /\ Len(log) > 0
    /\ log[Len(log)].ev = "error_wrong_count"
    /\ Len(Uploads) > 0

\* -------------------------------------------- claims on the rewriting passes
LastChar(t) == t[Len(t)]

\* the positions of "[" in t, from i on, that a later "]" closes
Openers(t, i) ==
    { j \in i..Len(t) : t[j] = "[" /\ \E c \in (j + 1)..Len(t) : t[c] = "]" }

\* the first "]" after position j of t
Closer(t, j) == Min({ c \in (j + 1)..Len(t) : t[c] = "]" })

\* the positions of t inside a square-bracketed substring (brackets included)
RECURSIVE BracketedFrom(_, _)
BracketedFrom(t, i) ==
    IF Openers(t, i) = {} THEN {}
    ELSE LET j == Min(Openers(t, i))
         IN  (j..Closer(t, j)) \cup BracketedFrom(t, Closer(t, j) + 1)

\* the square-bracketed substrings of t, in order
RECURSIVE BracketSpans(_, _)
BracketSpans(t, i) ==
    IF Openers(t, i) = {} THEN << >>
    ELSE LET j == Min(Openers(t, i))
         IN  << SubSeq(t, j, Closer(t, j)) >> \o BracketSpans(t, Closer(t, j) + 1)

\* a shorthand reference (word, then a digit) starts at position i of t
ShorthandAt(t, i, word) ==
    /\ StartsWith(t, i, word)
    /\ i + Len(word) <= Len(t)
    /\ t[i + Len(word)] \in Digits

\* one or two decimal digits, as the claims write a number
Dec(n) ==
    IF n < 10 THEN << DigitChars[n + 1] >>
    ELSE << DigitChars[(n \div 10) + 1], DigitChars[(n % 10) + 1] >>

IssueLinkTo4 == S_github \o RepoChars[GRepo] \o S_issues \o << "4" >>

\* C7: the implicit issue and implicit pull-request passes leave every
\* substring enclosed in square brackets unchanged, and the implicit issue
\* pass rewrites every shorthand "issue #N" outside square brackets into a
\* destination issue link with number N ("see issue #4" is rewritten, into
\* the current destination repository when no known name prefixes it).
C7_BracketsKeptShorthandRewritten ==
    /\ (pass \in {"implicit_issues", "implicit_prs"} /\ result.ok) =>
           BracketSpans(result.text, 1) = BracketSpans(body, 1)
    /\ pass = "implicit_issues" =>
           /\ result.ok
           /\ \A i \in 1..Len(result.text) :
                  ShorthandAt(result.text, i, S_issue_hash) =>
                      i \in BracketedFrom(result.text, 1)
           /\ body_parts = << "see", "issue4" >> =>
                  result.text = S_see \o IssueLinkTo4

\* the handle following the "@" of a mention piece
HandleOf(p) ==
    CASE p = "alice" -> S_alice
      [] p = "bob" -> S_bob
      [] p = "at" -> << >>

\* what the claim says of a handle: mapped to abot for alice, itself otherwise
ClaimedUser(h) == IF h = S_alice THEN S_abot ELSE h

\* the text the claim gives for a body of mention pieces, from piece k on: a
\* mention is an "@" at the start or after a non-word character, followed by
\* a handle that runs as far as handle characters go
RECURSIVE ClaimedMentions(_, _)
ClaimedMentions(ps, k) ==
    IF k > Len(ps) THEN << >>
    ELSE
      LET live == k = 1 \/ LastChar(Piece[ps[k - 1]]) \notin WordChars
          ext == RunLen(ps, k + 1, {"x", "dash"})
          handle == IF ps[k] \in {"alice", "bob", "at"}
                       THEN HandleOf(ps[k]) \o
                            Flatten([j \in 1..ext |-> Piece[ps[k + j]]])
                       ELSE << >>
      IN  IF live /\ handle /= << >>
             THEN << "@" >> \o S_ignore \o ClaimedUser(handle)
                      \o ClaimedMentions(ps, k + 1 + ext)
          ELSE IF live /\ ps[k] = "uuid"
             THEN << "@" >> \o S_ignore \o S_uuid \o ClaimedMentions(ps, k + 1)
          ELSE Piece[ps[k]] \o ClaimedMentions(ps, k + 1)

\* an "@" of t that starts a mention
MentionAt(t, j) ==
    /\ t[j] = "@"
    /\ j = 1 \/ t[j - 1] \notin WordChars
    /\ j < Len(t)
    /\ t[j + 1] \in HandleChars \cup {"{"}

\* C8: the mention pass never fails and rewrites every @handle mention (at
\* the start of the text or after a non-word character): an unmapped handle h
\* becomes @ignore_h, alice (mapped to abot) becomes @ignore_abot, and no
\* mention of the result is left without the ignore_ prefix.
C8_EveryMentionRewritten ==
    pass = "users" =>
        /\ result.ok
        /\ \A j \in 1..Len(result.text) :
               MentionAt(result.text, j) => StartsWith(result.text, j + 1, S_ignore)
        /\ (\A k \in 1..Len(body_parts) : body_parts[k] \in MentionPieces) =>
               result.text = ClaimedMentions(body_parts, 1)

C8_Witness ==
    /\ pass = "users"
    /\ body_parts = << "alice", "sp", "bob" >>
    /\ result.ok
    /\ result.text = << "@" >> \o S_ignore \o S_abot \o << " ", "@" >>
                         \o S_ignore \o S_bob

\* the repository and number an explicit pull-request link piece names
LinkOf(p) ==
    CASE p = "pr_r3" -> [repo |-> "o/r", n |-> 3]
      [] p = "pr_s9" -> [repo |-> "o/s", n |-> 9]
      [] p = "pr_x3" -> [repo |-> "o/x", n |-> 3]

IsLinkPiece(p) == p \in {"pr_r3", "pr_s9", "pr_x3"}

\* a piece without whitespace or bracket: glued to a link, it is part of it
GluedPieces == {"x", "diff", "pr_r3", "pr_s9", "pr_x3"}

\* the text the claim gives for a body of link pieces, from piece k on: a
\* link runs up to the next whitespace or bracket
RECURSIVE ClaimedExplicitPrs(_, _)
ClaimedExplicitPrs(ps, k) ==
    IF k > Len(ps) THEN << >>
    ELSE
      LET ext == RunLen(ps, k + 1, GluedPieces)
          l == LinkOf(ps[k])
      IN  IF IsLinkPiece(ps[k]) /\ l.repo \in DOMAIN KNOWN_REPO_MAPPING
             THEN (IF l.repo \in DOMAIN KNOWN_ISSUES_COUNT_MAPPING
                      THEN S_github \o RepoChars[KNOWN_REPO_MAPPING[l.repo]]
                               \o S_pull
                               \o Dec(l.n + KNOWN_ISSUES_COUNT_MAPPING[l.repo])
                      ELSE Flatten([j \in 1..(ext + 1) |-> Piece[ps[k + j - 1]]]))
                  \o ClaimedExplicitPrs(ps, k + 1 + ext)
             ELSE Piece[ps[k]] \o ClaimedExplicitPrs(ps, k + 1)

\* C9: the explicit pull-request pass replaces every explicit source link to
\* pull request N of repository R (the link running up to the next whitespace
\* or bracket) by the destination pull link with number N + offset(R) when R
\* has a destination repository and a configured issue count, and leaves the
\* link text unchanged when R or its offset is unknown.
C9_ExplicitPrLinks ==
    (pass = "explicit_prs"
       /\ \A k \in 1..Len(body_parts) : body_parts[k] \in LinkPieces) =>
        /\ result.ok
        /\ result.text = ClaimedExplicitPrs(body_parts, 1)

C9_Witness ==
    /\ pass = "explicit_prs"
    /\ body_parts = << "pr_s9", "sp", "pr_r3" >>
    /\ DOMAIN KNOWN_ISSUES_COUNT_MAPPING = {"o/r", "o/s"}
    /\ result.text = S_github \o RepoChars["g/s"] \o S_pull \o << "1", "3", " " >>
                         \o S_github \o RepoChars["g/r"] \o S_pull \o << "5" >>

\* the text the claim gives for one matched, unprefixed "pull request #3/i"
ClaimedImplicitPr3 ==
    IF BRepo \in DOMAIN KNOWN_ISSUES_COUNT_MAPPING
       THEN S_github \o RepoChars[GRepo] \o S_pull
                \o Dec(3 + KNOWN_ISSUES_COUNT_MAPPING[BRepo])
       ELSE Piece["pull3i"]

\* C10: the implicit pull-request pass always returns a text and never
\* fails; a matched shorthand "pull request #N" outside square brackets and
\* without a known repository-name prefix becomes the destination pull link
\* of the current destination repository with number N + offset(current
\* source repository), and stays unchanged when that offset is not configured.
C10_ImplicitPrLinks ==
    pass = "implicit_prs" =>
        /\ result.ok
        /\ body_parts = << "see", "pull3i" >> =>
               result.text = S_see \o ClaimedImplicitPr3

\* ---------------------------------------------------------------- C15
\* C15: applying the four link passes to what they returned changes
\* nothing: whenever they return a text for a body, they return the same
\* text for that text.
C15_LinkRewriteIdempotent ==
    (pass = "map_content:212" /\ result.ok) =>
        RewriteLinks(result.text) = result

\* a body with an explicit issue link, an explicit pull request link and an
\* issue shorthand, all three rewritten to destination form
C15_Witness ==
    /\ pass = "map_content:212"
    /\ body_parts = << "is_r4", "sp", "pr_r3" >>
    /\ "o/r" \in DOMAIN KNOWN_ISSUES_COUNT_MAPPING
    /\ result = Returned(
           S_github \o RepoChars["g/r"] \o S_issues \o << "4", " " >>
               \o S_github \o RepoChars["g/r"] \o S_pull \o << "5" >>)

\* ------------------------------------------------ claims on the assembler
\* an assembler was called on source_item and returned
Assembled == assembled /= << >> /\ assembled.ok

\* the destination item it returned
AssembledData ==
    IF source_item.track = "issue" THEN assembled.value
    ELSE assembled.value.data

\* the place of a comment in the order of insertion: the replies in the
\* order of the provider, then the field changes or the approvals in theirs
InsertionRank(c) ==
    IF c.body.of = "reply" THEN c.body.id
    ELSE Len(source_item.comments) + c.body.id

\* the source comments that are to appear: replies that are neither empty
\* nor deleted, changes of a field that is not blacklisted, approvals
KeptSources ==
    { << "reply", k >> : k \in { j \in 1..Len(source_item.comments) :
          /\ source_item.comments[j].raw /= None
          /\ ~source_item.comments[j].deleted } }
      \cup
    (IF source_item.track = "issue"
        THEN { << "change", k >> : k \in { j \in 1..Len(source_item.changes) :
                 \E key \in Range(source_item.changes[j].changes) :
                     key \notin {"content", "title", "assignee_account_id"} } }
        ELSE { << "approval", k >> : k \in { j \in 1..Len(source_item.activity) :
                 source_item.activity[j].kind = "approval" } })

C13_PullBodyAlwaysAssembled ==
    (assembled /= << >> /\ source_item.track = "pull") =>
        /\ assembled.ok
        /\ (source_item.source.commit /= None /\ SourceHash \notin cmap)
               => \E k \in 1..Len(assembled.printed) :
                      /\ "hash" \in DOMAIN assembled.printed[k]
                      /\ assembled.printed[k].hash = SourceHash
        /\ DestinationHash \notin cmap
               => \E k \in 1..Len(assembled.printed) :
                      /\ "hash" \in DOMAIN assembled.printed[k]
                      /\ assembled.printed[k].hash = DestinationHash

\* C16: the closed flag of an assembled issue or pull request is false
\* exactly when the state of the source is one of the configured open
\* states; for a state that is in no configured enumeration the flag is
\* true and a warning naming the state is printed.
C16_ClosedUnlessOpenState ==
    Assembled =>
        /\ AssembledData.closed
               = (source_item.state \notin OPEN_ISSUE_OR_PULL_REQUEST_STATES)
        /\ (/\ source_item.state \notin OPEN_ISSUE_OR_PULL_REQUEST_STATES
            /\ source_item.state \notin DOMAIN STATE_MAPPING)
               => /\ AssembledData.closed
                  /\ \E k \in 1..Len(assembled.printed) :
                         assembled.printed[k] =
                             [msg |-> "Warning: ignoring bitbucket issue state",
                              state |-> source_item.state]

\* a pull request in a state of no enumeration, assembled as a closed issue
C16_Witness ==
    /\ Assembled
    /\ source_item.track = "pull"
    /\ source_item.state = "weird"
    /\ assembled.value.type = "issue"
    /\ AssembledData.closed
    /\ Len(assembled.printed) = 1

\* the destination handle of the author of a source pull request, None for a
\* deleted account
MappedAuthor(bpull) ==
    IF bpull.author = None THEN None
    ELSE LET nickname == bpull.author[1].nickname
         IN  Some(S_ignore \o (IF nickname \in DOMAIN USER_MAPPING
                                  THEN USER_MAPPING[nickname]
                                  ELSE nickname))

IsAssembly(e) == e.ev = "assemble"

\* the positions in the log of the assemblies of the current run, in order:
\* the n-th is the assembly of the item of unified number n
AssemblyPositions ==
    LET RECURSIVE From(_)
        From(k) == IF k > Len(log) THEN << >>
                   ELSE IF IsAssembly(log[k]) THEN << k >> \o From(k + 1)
                   ELSE From(k + 1)
    IN  From(1)

\* C17: each unified number is fully processed before the next one starts:
\* the create or update call for number n is issued after the assembly of
\* item n and before the assembly of item n + 1.
C17_ProcessedOneByOne ==
    \A k \in 1..Len(log) :
        IsUpload(log[k]) =>
            LET n == log[k].number
            IN  /\ n <= Len(AssemblyPositions)
                /\ AssemblyPositions[n] < k
                /\ n + 1 <= Len(AssemblyPositions) =>
                       k < AssemblyPositions[n + 1]

\* the bundle get-or-create calls of the current run for the issue of this id
BundleCalls(id) ==
    { k \in 1..Len(log) : log[k].ev = "get_or_create_gist" /\ log[k].id = id }

\* the run has left the attachment phase behind
AttachmentPhaseOver ==
    pc \in {"prepare_issues", "prepare_pulls", "fetch_existing", "upload",
            "final_checks", "done"}

RunPhases ==
    {"idle", "retrieve", "attachments", "prepare_issues", "prepare_pulls",
     "fetch_existing", "upload", "final_checks", "done"}

\* C18: attachment migration is a phase of its own that is over before any
\* item is assembled, created or updated. It issues exactly one bundle
\* get-or-create call for every source issue with an attachment and none
\* for the others. With the skip-attachments flag no bundle call is issued,
\* every attachment of every issue is rendered in the issue body with the
\* "(missing link)" marker, and the run goes on to the upload phase.
C18_AttachmentPhase ==
    /\ \A j, k \in 1..Len(log) :
           (log[j].ev = "get_or_create_gist"
                /\ (IsAssembly(log[k]) \/ IsUpload(log[k]))) => j < k
    /\ \A k \in 1..Len(log) :
           log[k].ev = "get_or_create_gist" =>
               /\ ~args.skip_attachments
               /\ Cardinality(BundleCalls(log[k].id)) = 1
               /\ \E i \in 1..Len(bitbucket.issues) :
                      /\ bitbucket.issues[i].id = log[k].id
                      /\ bitbucket.issues[i].attachments
    /\ (AttachmentPhaseOver /\ ~args.skip_attachments) =>
           \A i \in 1..Len(bitbucket.issues) :
               bitbucket.issues[i].attachments =>
                   Cardinality(BundleCalls(bitbucket.issues[i].id)) = 1
    /\ args.skip_attachments =>
           /\ \A k \in 1..Len(issues_and_pulls) :
                  issues_and_pulls[k].src = "issue" =>
                      LET lines == issues_and_pulls[k].data.body.attachments
                          names == get_issue_attachments(bitbucket.issues[k])
                      IN  /\ Len(lines) = Len(names)
                          /\ \A a \in 1..Len(names) :
                                 /\ lines[a].name = names[a]
                                 /\ lines[a].link = "(missing link)"
           /\ ~OffsetPreconditionFails => pc \in RunPhases
           /\ pc \in {"upload", "final_checks", "done"} =>
                  Len(issues_and_pulls) = SourceCount

C18_Witness ==
    /\ args.skip_attachments
    /\ pc = "done"
    /\ Len(bitbucket.issues) = 2
    /\ bitbucket.issues[1].attachments
    /\ ~bitbucket.issues[2].attachments
    /\ Len(Uploads) = SourceCount
    /\ issues_and_pulls[1].data.body.attachments =
           << [name |-> "a.txt", link |-> "(missing link)"],
              [name |-> "b.txt", link |-> "(missing link)"] >>
    /\ issues_and_pulls[2].data.body.attachments = << >>

\* C19: in the upload loop the kind of write call matches the type of the
\* assembled item: an item of type issue is written through
\* create_issue_with_comments or update_issue_with_comments only, an item of
\* type pull through create_pull_with_comments or update_pull_with_comments
\* only; an existing destination pull request is never updated through the
\* issue update operation.
C19_WriteCallMatchesType ==
    \A k \in 1..Len(log) :
        IsUpload(log[k]) =>
            /\ log[k].type = "issue" =>
                   log[k].ev \in {"create_issue_with_comments",
                                  "update_issue_with_comments"}
            /\ log[k].type = "pull" =>
                   log[k].ev \in {"create_pull_with_comments",
                                  "update_pull_with_comments"}
            /\ (log[k].ev = "update_issue_with_comments"
                    /\ log[k].target \in DOMAIN github_at_start[run]) =>
                   github_at_start[run][log[k].target] = "issue"

\* the number of items the destination held when the current run started
HeldAtStart == Cardinality(DOMAIN github_at_start[run])

\* C20: resuming an interrupted run. When the destination holds exactly the
\* items numbered 1..m at the start of a run, m less than the number n of
\* source items and each item of the type assembled for its number, the
\* finished run has issued update calls for 1..m and create calls for
\* m+1..n in ascending order, every created item has received exactly its
\* unified number, and the destination holds as many items as the source.
C20_ResumeCompletes ==
    (/\ run > 0
     /\ pc = "done"
     /\ IsMigratedPrefix(github_at_start[run])
     /\ HeldAtStart < SourceCount) =>
        /\ Len(Uploads) = SourceCount
        /\ \A k \in 1..Len(Uploads) :
               /\ Uploads[k].number = k
               /\ Uploads[k].target = k
               /\ k <= HeldAtStart => Uploads[k].ev \in UpdateEvents
               /\ k > HeldAtStart =>
                      /\ Uploads[k].ev \in CreateEvents
                      /\ github[k] = Uploads[k].type
        /\ DOMAIN github = 1..SourceCount
        /\ get_issues_count(github) + get_pulls_count(github) = SourceCount
        /\ \A k \in 1..HeldAtStart : github[k] = github_at_start[run][k]
        /\ \A k \in 1..Len(log) : log[k].ev /= "error_wrong_count"

C20_Witness ==
    /\ run = 1
    /\ pc = "done"
    /\ github_at_start[1] = << "issue" >>
    /\ Len(bitbucket.issues) = 2
    /\ Len(bitbucket.pulls) = 2
    /\ bitbucket.pulls[1].state = "OPEN"
    /\ Len(Uploads) = 4
    /\ Uploads[1].ev = "update_issue_with_comments"
    /\ Uploads[2].ev = "create_issue_with_comments"
    /\ Uploads[3].ev = "create_pull_with_comments"
    /\ Uploads[3].target = 3
    /\ github[3] = "pull"

\* ------------------------------------------------ claims on the check mode
\* the handles that appear with a fetched issue or pull request: its author,
\* the assignee of an issue, the participants and reviewers of a pull
\* request, and the users of its comments
HandlesOfIssue(bissue) ==
    { u[1].nickname : u \in { bissue.reporter, bissue.assignee } \ { None } }
        \cup { bissue.comments[k].user[1].nickname :
                 k \in { j \in 1..Len(bissue.comments) :
                           bissue.comments[j].user /= None } }

HandlesOfPull(bpull) ==
    { u[1].nickname : u \in { bpull.author } \ { None } }
        \cup { bpull.participants[k].user[1].nickname :
                 k \in 1..Len(bpull.participants) }
        \cup Nicknames(bpull.reviewers)
        \cup { bpull.comments[k].user[1].nickname :
                 k \in { j \in 1..Len(bpull.comments) :
                           bpull.comments[j].user /= None } }

Handles ==
    UNION { HandlesOfIssue(bitbucket.issues[k]) :
              k \in 1..Len(bitbucket.issues) }
      \cup UNION { HandlesOfPull(bitbucket.pulls[k]) :
                     k \in 1..Len(bitbucket.pulls) }

Warned ==
    { log[k].nickname :
        k \in { j \in 1..Len(log) :
                  log[j].ev = "warning_not_in_user_mapping" } }

\* C14: in check mode every handle that appears as the author of an issue
\* or a pull request, as a participant or reviewer of a pull request, or as
\* a commenter on an issue or a pull request, and that is not in the user
\* table, is reported by a warning once the check has run through; the mode
\* issues no create, update or bundle call and leaves the destination alone.
C14_CheckWarnsEveryUnmappedHandle ==
    /\ \A k \in 1..Len(log) : log[k].ev \notin WriteEvents
    /\ pc = "checked" => (Handles \ DOMAIN USER_MAPPING) \subseteq Warned

====
